---- MODULE Spec2Model ----
(***************************************************************************)
(* The quiz coordination kernel of mathquiz: the question lifecycle        *)
(* (GET /api/question), the winner claim (POST /api/answer) and the        *)
(* grace-delayed rotation task, as concurrent request handlers over the    *)
(* shared Question and Player collections.  Every await on the store is    *)
(* one atomic step; the synchronous code that follows an await belongs to  *)
(* the step of that await.  The join route, the leaderboard route and the  *)
(* page (its retry wrapper, poll loop and submission) have specifications  *)
(* of their own over the same variables.                                   *)
(***************************************************************************)
EXTENDS Integers, Sequences, FiniteSets, TLC

\* ------------------------------------------------------------- bounds
MaxQuestions == 3    \* Question documents ever created
MaxRequests == 2     \* requests served in one run, all of which may overlap
MaxSeqRequests == 3  \* requests served in one sequential run
MaxTicks == 2        \* clock advances in one run
MaxJoins == 3        \* join requests served in one run, all of which may overlap
MaxWins == 3         \* the scores of a run add up to at most this
MaxPlayers == 11     \* players on the leaderboard's collection
MaxStreak == 5       \* failed polls the page counts

\* ---------------------------------------------------- program constants
QUESTION_TIMEOUT_MS == 60000
GRACE_DELAY_MS == 3000
USERNAME_MAX == 20
LEADERBOARD_LIMIT == 10

\* The client: the poll intervals and the failure counts they start at, and
\* the retry budgets of a poll and of an answer submission.
POLL_FAST_MS == 1500
POLL_SLOW_MS == 4000
POLL_OFFLINE_MS == 10000
RECONNECTING_AT == 2
OFFLINE_AT == 5
POLL_RETRIES == 1
POLL_BASE_DELAY == 300
ANSWER_RETRIES == 2
ANSWER_BASE_DELAY == 300

\* ------------------------------------------------------------ id values
None == 0            \* null / undefined / absent
UnknownId == 99      \* a well-formed ObjectId that names no document
MalformedId == -1    \* a string that does not cast to an ObjectId
NaN == -1            \* Number(x) of a non-numeric x; stored answers are >= 0

\* Handler p serves the p-th request of a run; a sequential run reuses handler 1.
Procs == 1..MaxRequests
PlayerIds == {1, 2}

\* Handler p of the join route serves the p-th join request of a run.
JoinProcs == 1..MaxJoins

VARIABLES
    now,         \* Date.now()
    ticks,       \* clock advances so far
    started,     \* requests that have arrived so far
    questions,   \* Question collection: sequence, _id = index
    players,     \* Player collection: _id -> document
    timers,      \* pending setTimeout rotation tasks
    pc,          \* per handler: the await it is suspended at
    req,         \* per handler: its locals
    sent,        \* the response sent by the step just taken, if any
    sequential,  \* TRUE in a run that issues one request at a time
    story,       \* sequential run: progress through the wrong / win / late example
    join,        \* per join handler: the await it is suspended at, and its locals
    joined,      \* the last response of a join handler
    board,       \* the response of the leaderboard route just sent, if any
    client,      \* the page: its React state and refs
    calls,       \* the page's calls of fetchWithRetry in flight, by caller
    timer,       \* the delay the pending poll timeout was armed with, 0 if none
    last,        \* history: the call that the step just taken completed, if any
    seen,        \* history: whether a browser event has occurred, and until then
                 \* the failed polls since the last successful one
    conn         \* the handler that the pending fetch of handleSubmit has reached,
                 \* 0 if none

vars == <<now, ticks, started, questions, players, timers, pc, req, sent, sequential, story,
          join, joined, board, client, calls, timer, last, seen, conn>>

\* What the question, answer and rotation code never touches.
others == <<join, joined, board, client, calls, timer, last, seen, conn>>

\* ------------------------------------------------------ pure functions

\* generateQuestion(): the {text, answer} pairs it returns for the sampled
\* operands (case "x": a, b in 2..12, answer = a * b).
SampleOperands == { <<7, 8>> }

generateQuestion ==
    { [text |-> "a x b", answer |-> ab[1] * ab[2]] : ab \in SampleOperands }

\* The JSON values a request may carry as `answer`.
RawAnswers ==
    { [t |-> "number", v |-> 55], [t |-> "number", v |-> 56],
      [t |-> "string", v |-> 56],      \* "56"
      [t |-> "text",   v |-> None],    \* "abc"
      [t |-> "absent", v |-> None] }   \* undefined or null

\* Number(answer)
ToNumber(raw) == IF raw.t \in {"number", "string"} THEN raw.v ELSE NaN

Max(a, b) == IF a >= b THEN a ELSE b

remainingMs(createdAt, t) == Max(0, QUESTION_TIMEOUT_MS - (t - createdAt))

Min(a, b) == IF a <= b THEN a ELSE b

\* A string the join route receives is a sequence of characters.
RECURSIVE TrimStart(_)
TrimStart(s) == IF s # << >> /\ Head(s) = " " THEN TrimStart(Tail(s)) ELSE s

RECURSIVE TrimEnd(_)
TrimEnd(s) ==
    IF s # << >> /\ s[Len(s)] = " " THEN TrimEnd(SubSeq(s, 1, Len(s) - 1)) ELSE s

\* s.trim()
Trim(s) == TrimEnd(TrimStart(s))

\* s.substring(from, to)
Substring(s, from, to) == SubSeq(s, from + 1, Min(to, Len(s)))

\* username.trim().substring(0, 20)
Trimmed(username) == Substring(Trim(username), 0, USERNAME_MAX)

\* The usernames a join request may carry: a name, the same name in blanks,
\* another name, a blank one, an empty or missing one, and one above the cap.
RawUsernames ==
    { <<"a">>, <<" ", "a", " ">>, <<"b">>, <<" ">>, << >>,
      [ i \in 1..(USERNAME_MAX + 1) |-> "c" ] }

\* !question.isActive
InactiveNever(q) == FALSE  \* the bug: the test is left out
Inactive(q) == ~q.isActive

\* question.winnerId
AlreadyWonNever(q) == FALSE  \* the bug: the test is left out
AlreadyWon(q) == q.winnerId # None

\* numAnswer !== question.answer
WrongAnswerNever(numAnswer, q) == FALSE  \* the bug: every value is accepted
WrongAnswer(numAnswer, q) == numAnswer # q.answer

\* The timeout test of the inspected question.
TimedOutInSeconds(q, t) ==  \* the bug: the window is taken in seconds
    q.winnerId = None /\ t - q.createdAt > QUESTION_TIMEOUT_MS * 1000
TimedOutAtWindow(q, t) ==  \* the bug: the test is >=
    q.winnerId = None /\ t - q.createdAt >= QUESTION_TIMEOUT_MS
TimedOut(q, t) == q.winnerId = None /\ t - q.createdAt > QUESTION_TIMEOUT_MS

\* The filter of the conditional update: { _id, winnerId: null, isActive: true }
ClaimFilterNone(q) == TRUE  \* the bug: a plain update by _id
ClaimFilterUnclaimed(q) == q.winnerId = None  \* the bug: isActive is not in the filter
ClaimFilter(q) == q.winnerId = None /\ q.isActive

\* sort({ score: -1 }), by insertion: id i goes before the first entry of a
\* lower score; among equal scores the order is the storage's, of which two
\* are taken: i after its equals, or before them.
TieOrders == { "after", "before" }

RECURSIVE InsertAscending(_, _, _, _)
InsertAscending(ps, sorted, i, tie) ==  \* the bug: sort({ score: 1 })
    IF sorted = << >> THEN << i >>
    ELSE IF \/ ps[i].score < ps[Head(sorted)].score
            \/ tie = "before" /\ ps[i].score = ps[Head(sorted)].score
      THEN << i >> \o sorted
    ELSE << Head(sorted) >> \o InsertAscending(ps, Tail(sorted), i, tie)

RECURSIVE Insert(_, _, _, _)
Insert(ps, sorted, i, tie) ==
    IF sorted = << >> THEN << i >>
    ELSE IF \/ ps[i].score > ps[Head(sorted)].score
            \/ tie = "before" /\ ps[i].score = ps[Head(sorted)].score
      THEN << i >> \o sorted
    ELSE << Head(sorted) >> \o Insert(ps, Tail(sorted), i, tie)

RECURSIVE SortByScore(_, _, _)
SortByScore(ps, n, tie) ==
    IF n = 0 THEN << >> ELSE Insert(ps, SortByScore(ps, n - 1, tie), n, tie)

\* limit(n)
Limit(s, n) == SubSeq(s, 1, Min(n, Len(s)))

\* Player.find({}).sort({ score: -1 }).limit(10).select("username score highScore")
TopPlayers(ps, tie) ==
    LET ids == Limit(SortByScore(ps, Len(ps), tie), LEADERBOARD_LIMIT)
    IN  [ k \in 1..Len(ids) |->
            [ id |-> ids[k], username |-> ps[ids[k]].username,
              score |-> ps[ids[k]].score, highScore |-> ps[ids[k]].highScore ] ]

\* select("username score") of the same query
SelectScore(lb) ==
    [ k \in 1..Len(lb) |->
        [ id |-> lb[k].id, username |-> lb[k].username, score |-> lb[k].score ] ]

\* ------------------------------------------------------------- records

NewQuestion(g, createdAt, parent) ==
    [ text |-> g.text, answer |-> g.answer, isActive |-> TRUE,
      winnerId |-> None, winnerName |-> "", createdAt |-> createdAt,
      \* history: which retirement created it, when it was won and retired,
      \* and how many win responses were sent for it
      parent |-> parent, wonAt |-> -1, retiredAt |-> -1, wins |-> 0 ]

\* readAt is history: when the handler read the document.
NoDoc == [ id |-> None, winnerId |-> None, winnerName |-> "", createdAt |-> 0, readAt |-> 0 ]

DocOf(i) ==
    [ id |-> i, winnerId |-> questions[i].winnerId,
      winnerName |-> questions[i].winnerName, createdAt |-> questions[i].createdAt,
      readAt |-> now ]

IdleReq ==
    [ kind |-> "none", playerId |-> None, questionId |-> None, value |-> 0,
      username |-> "", doc |-> NoDoc, old |-> None, stamp |-> 0 ]

NoResponse ==
    [ kind |-> "none", playerId |-> None, questionId |-> None, value |-> 0,
      status |-> 0, correct |-> FALSE, won |-> FALSE, message |-> "",
      winnerId |-> None, remainingMs |-> 0, old |-> None, leaderboard |-> << >>,
      readAt |-> 0 ]

PostResponse(r, status, correct, won, message) ==
    [ kind |-> "POST", playerId |-> r.playerId, questionId |-> r.questionId,
      value |-> r.value, status |-> status, correct |-> correct, won |-> won,
      message |-> message, winnerId |-> None, remainingMs |-> 0, old |-> None,
      leaderboard |-> << >>, readAt |-> 0 ]

\* The snapshot; old is the question this call retired, if any, and readAt
\* the time it inspected the question it returns.
GetResponse(r, leaderboard) ==
    [ kind |-> "GET", playerId |-> None, questionId |-> r.doc.id, value |-> 0,
      status |-> 200, correct |-> FALSE, won |-> FALSE, message |-> "",
      winnerId |-> r.doc.winnerId,
      remainingMs |-> remainingMs(r.doc.createdAt, now), old |-> r.old,
      leaderboard |-> leaderboard, readAt |-> r.doc.readAt ]

\* Player.create({ username, score: 0 }) and Player.create({ username,
\* score: 0, highScore: 0 }): the schema defaults highScore to 0.
NewPlayer(username) == [ username |-> username, score |-> 0, highScore |-> 0 ]

\* The two handlers of POST /api/join in the repository.
JoinRoutes == { "join/route.ts", "part_001" }

\* The else branch of the existing-player test: player.score = 0; save().
ResetsScore(route) == route = "part_001"

IdleJoin ==
    [ at |-> "idle", route |-> "", username |-> << >>, id |-> None,
      score |-> 0, highScore |-> 0 ]

\* existed and read are history: whether the handler found the player, and
\* the score it read then.
NoJoined ==
    [ status |-> 0, route |-> "", playerId |-> None, username |-> << >>,
      score |-> 0, highScore |-> 0, existed |-> FALSE, read |-> 0 ]

NoBoard == [ status |-> 0, leaderboard |-> << >> ]

\* ---------------------------------------------------- the page's records

NoQuestion == [ questionId |-> None, winnerId |-> None ]

NoFeedback == [ message |-> "", type |-> "none" ]

NetworkError == [ message |-> "Network error. Please try again.", type |-> "error" ]

\* The page of a restored session: useState and useRef initial values, and
\* playerId from sessionStorage.
NewClient ==
    [ playerId |-> 1, question |-> NoQuestion, answerInput |-> "",
      feedback |-> NoFeedback, submitting |-> FALSE,
      connectionStatus |-> "connected", consecutiveFailures |-> 0,
      pollIntervalRef |-> POLL_FAST_MS, lastQuestionId |-> None ]

\* first: fetchQuestion() of the poll effect; loop: fetchQuestion() of the
\* timeout callback; submit: handleSubmit.
Callers == { "first", "loop", "submit" }
Pollers == { "first", "loop" }

NoCall == [ at |-> "none", attempt |-> 0, waited |-> << >> ]
NewCall == [ at |-> "fetch", attempt |-> 0, waited |-> << >> ]

\* The call just completed: how it ended, after how many attempts and which
\* waits, with which response; whether a poll brought a questionId that was
\* not the last observed one; and the failed polls in a row before it.
NoLast ==
    [ caller |-> "", outcome |-> "", attempts |-> 0, waited |-> << >>,
      ok |-> FALSE, data |-> NoQuestion, changed |-> FALSE, streak |-> 0 ]

\* After mount: the first poll is in flight and the first timeout is armed.
ClientStart ==
    /\ client = NewClient
    /\ calls = [ c \in Callers |-> IF c = "first" THEN NewCall ELSE NoCall ]
    /\ timer = POLL_FAST_MS
    /\ last = NoLast
    /\ seen = [ streak |-> 0, events |-> FALSE ]
    /\ conn = 0

\* ----------------------------------------------------------- the store

\* { isActive: false } written to document i
RetireToggle(qs, i) ==  \* the bug: the flag is flipped, not cleared
    [qs EXCEPT ![i].isActive = ~@,
               ![i].retiredAt = IF qs[i].isActive THEN now ELSE @]
Retire(qs, i) ==
    [qs EXCEPT ![i].isActive = FALSE,
               ![i].retiredAt = IF qs[i].isActive THEN now ELSE @]

Active == { i \in 1..Len(questions) : questions[i].isActive }

\* Question.findOne({ isActive: true }).sort({ createdAt: -1 })
Newest == { i \in Active : \A j \in Active : questions[j].createdAt <= questions[i].createdAt }

\* The example run of three submissions, one after the other: a player
\* submits a wrong value for an active unclaimed question (stage 1, with the
\* response), another player then wins that question (stage 2), and the
\* first player then submits the stored answer while the question is still
\* active (stage 3, with the response).
NoStory == [ stage |-> 0, player |-> None, question |-> None,
             first |-> <<FALSE, FALSE, "">>, third |-> <<FALSE, FALSE, "">> ]

StoryNext(st, r) ==
    IF r.kind # "POST" \/ r.questionId \notin 1..Len(questions) THEN st
    ELSE LET q == questions[r.questionId] IN
      IF /\ st.stage = 0 /\ r.playerId \in DOMAIN players
         /\ q.isActive /\ q.winnerId = None
         /\ r.value # NaN /\ r.value # q.answer
        THEN [st EXCEPT !.stage = 1, !.player = r.playerId, !.question = r.questionId,
                        !.first = <<r.correct, r.won, r.message>>]
      ELSE IF /\ st.stage = 1 /\ r.questionId = st.question /\ r.playerId # st.player
              /\ r.value = q.answer /\ r.won
        THEN [st EXCEPT !.stage = 2]
      ELSE IF /\ st.stage = 2 /\ r.questionId = st.question /\ r.playerId = st.player
              /\ r.value = q.answer /\ q.isActive
        THEN [st EXCEPT !.stage = 3, !.third = <<r.correct, r.won, r.message>>]
      ELSE st

\* --------------------------------------------------------------- Init

\* The store before any request, or after the first snapshot call has
\* created the first question; two players have joined.
Start(seq) ==
    /\ now = 0
    /\ ticks = 0
    /\ started = 0
    /\ questions \in { << >> } \cup { << NewQuestion(g, 0, None) >> : g \in generateQuestion }
    /\ players = [ i \in PlayerIds |->
                     [ username |-> IF i = 1 THEN "alice" ELSE "bob",
                       score |-> 0, highScore |-> 0 ] ]
    /\ timers = {}
    /\ pc = [ p \in Procs |-> "idle" ]
    /\ req = [ p \in Procs |-> IdleReq ]
    /\ sent = NoResponse
    /\ sequential = seq
    /\ story = NoStory
    /\ join = [ p \in JoinProcs |-> IdleJoin ]
    /\ joined = NoJoined
    /\ board = NoBoard
    /\ ClientStart

Init == Start(FALSE)

InitSeq == Start(TRUE)

\* A request may arrive; in a sequential run only when the one before it
\* has been answered.
MayArrive(p) ==
    /\ sent = NoResponse
    /\ pc[p] = "idle"
    /\ IF sequential
         THEN p = 1 /\ started < MaxSeqRequests
         ELSE p = started + 1 /\ started < MaxRequests

\* Handler p is suspended at an await that now completes.
At(p, at) == sent = NoResponse /\ pc[p] = at

\* The handler of p sends response r and ends.
Respond(p, r) ==
    /\ sent' = r
    /\ story' = IF sequential THEN StoryNext(story, r) ELSE story
    /\ pc' = [pc EXCEPT ![p] = "idle"]
    /\ req' = [req EXCEPT ![p] = IdleReq]

Suspend(p, at, r) ==
    /\ pc' = [pc EXCEPT ![p] = at]
    /\ req' = [req EXCEPT ![p] = r]
    /\ sent' = NoResponse
    /\ UNCHANGED story

\* ------------------------------------------------ POST /api/answer

\* The request bodies: every well-formed body over the known ids and one
\* id of no document, and the bodies with one defective field.
Num(v) == [t |-> "number", v |-> v]

AnswerBodies ==
    LET qids == 1..Len(questions)
        body(pl, q, a) == [playerId |-> pl, questionId |-> q, answer |-> a]
    IN  { body(pl, q, Num(v)) : pl \in PlayerIds \cup {UnknownId},
                                q \in qids \cup {UnknownId}, v \in {55, 56} }
        \cup { body(pl, q, Num(56)) : pl \in {None, MalformedId}, q \in qids }
        \cup { body(1, q, Num(56)) : q \in {None, MalformedId} }
        \cup { body(1, q, a) : q \in qids, a \in RawAnswers }

\* Lines 9-44: parse and validate the body, read the question, and reject
\* without a claim attempt when it is missing, inactive, won or the value is
\* wrong.
PostArrives(p, playerId, questionId, raw) ==
    /\ MayArrive(p)
    /\ LET numAnswer == ToNumber(raw)
           r == [IdleReq EXCEPT !.kind = "POST", !.playerId = playerId,
                                !.questionId = questionId, !.value = numAnswer]
       IN  IF playerId = None \/ questionId = None \/ raw.t = "absent"
             THEN Respond(p, PostResponse(r, 400, FALSE, FALSE, "playerId, questionId, and answer are required"))
           ELSE IF numAnswer = NaN
             THEN Respond(p, PostResponse(r, 400, FALSE, FALSE, "Answer must be a number"))
           ELSE IF questionId = MalformedId
             THEN Respond(p, PostResponse(r, 500, FALSE, FALSE, "Server error"))
           ELSE IF questionId \notin 1..Len(questions)
             THEN Respond(p, PostResponse(r, 404, FALSE, FALSE, "Question not found"))
           ELSE IF Inactive(questions[questionId])
             THEN Respond(p, PostResponse(r, 200, FALSE, FALSE, "Question is no longer active"))
           ELSE IF AlreadyWon(questions[questionId])
             THEN Respond(p, PostResponse(r, 200, FALSE, FALSE, "Someone already answered correctly"))
           ELSE IF WrongAnswer(numAnswer, questions[questionId])
             THEN Respond(p, PostResponse(r, 200, FALSE, FALSE, "Wrong answer, try again!"))
           ELSE Suspend(p, "findPlayer", r)
    /\ started' = started + 1
    /\ UNCHANGED <<now, ticks, questions, players, timers, sequential>>

PostFindQuestion(p, playerId, questionId, raw) ==
    /\ PostArrives(p, playerId, questionId, raw)
    /\ UNCHANGED others

\* The bug: the player is not looked up, and the claim goes ahead.
PostFindPlayerSkipped(p) ==
    /\ At(p, "findPlayer")
    /\ Suspend(p, "claim", req[p])
    /\ UNCHANGED <<now, ticks, started, questions, players, timers, sequential>>
    /\ UNCHANGED others

\* Lines 47-50: Player.findById(playerId)
PostFindPlayer(p) ==
    /\ At(p, "findPlayer")
    /\ LET r == req[p]
       IN  IF r.playerId = MalformedId
             THEN Respond(p, PostResponse(r, 500, FALSE, FALSE, "Server error"))
           ELSE IF r.playerId \notin DOMAIN players
             THEN Respond(p, PostResponse(r, 404, FALSE, FALSE, "Player not found"))
           ELSE Suspend(p, "claim", [r EXCEPT !.username = players[r.playerId].username])
    /\ UNCHANGED <<now, ticks, started, questions, players, timers, sequential>>
    /\ UNCHANGED others

\* Lines 53-62: the conditional update, and "too late" when it matched nothing.
PostClaim(p) ==
    /\ At(p, "claim")
    /\ LET r == req[p]
           i == r.questionId
       IN  IF ClaimFilter(questions[i])
             THEN /\ questions' = [questions EXCEPT ![i].winnerId = r.playerId,
                                                    ![i].winnerName = r.username,
                                                    ![i].wonAt = now]
                  /\ Suspend(p, "award", r)
             ELSE /\ UNCHANGED questions
                  /\ Respond(p, PostResponse(r, 200, TRUE, FALSE, "Correct, but someone was faster!"))
    /\ UNCHANGED <<now, ticks, started, players, timers, sequential>>
    /\ UNCHANGED others

\* Lines 65-84: $inc the score, schedule the rotation, answer with the win.
PostAward(p) ==
    /\ At(p, "award")
    /\ LET r == req[p]
       IN  /\ players' = [players EXCEPT ![r.playerId].score = @ + 1]
           /\ timers' = timers \cup { [ questionId |-> r.questionId,
                                        due |-> now + GRACE_DELAY_MS,
                                        at |-> "retire", stamp |-> 0 ] }
           /\ questions' = [questions EXCEPT ![r.questionId].wins = @ + 1]
           /\ Respond(p, PostResponse(r, 200, TRUE, TRUE, "wins!"))
    /\ UNCHANGED <<now, ticks, started, sequential>>
    /\ UNCHANGED others

\* ------------------------------------------- the rotation task (setTimeout)

\* Line 72: Question.findByIdAndUpdate(questionId, { isActive: false }), run
\* no earlier than the delay; line 73-74 then stamps the new document.
TimerRetire(t) ==
    /\ sent = NoResponse
    /\ t \in timers /\ t.at = "retire"
    /\ now >= t.due
    /\ questions' = Retire(questions, t.questionId)
    /\ timers' = (timers \ {t}) \cup { [t EXCEPT !.at = "create", !.stamp = now] }
    /\ sent' = NoResponse
    /\ UNCHANGED <<now, ticks, started, players, pc, req, sequential, story>>
    /\ UNCHANGED others

\* Line 74: Question.create(...)
TimerCreate(t) ==
    /\ sent = NoResponse
    /\ t \in timers /\ t.at = "create"
    /\ Len(questions) < MaxQuestions
    /\ \E g \in generateQuestion :
         questions' = Append(questions, NewQuestion(g, t.stamp, t.questionId))
    /\ timers' = timers \ {t}
    /\ sent' = NoResponse
    /\ UNCHANGED <<now, ticks, started, players, pc, req, sequential, story>>
    /\ UNCHANGED others

\* The task lives only in the memory of the process that scheduled it: when
\* that process exits first, the task never runs.
TimerLost(t) ==
    /\ sent = NoResponse
    /\ t \in timers
    /\ timers' = timers \ {t}
    /\ sent' = NoResponse
    /\ UNCHANGED <<now, ticks, started, questions, players, pc, req, sequential, story>>
    /\ UNCHANGED others

\* ------------------------------------------------ GET /api/question

\* Lines 37-50: find the newest active question and decide the branch.
GetFind(p) ==
    /\ MayArrive(p)
    /\ LET r == [IdleReq EXCEPT !.kind = "GET"]
       IN  IF Active = {}
             THEN Suspend(p, "create", [r EXCEPT !.stamp = now])
           ELSE \E i \in Newest :
                  IF TimedOut(questions[i], now)
                    THEN Suspend(p, "save", [r EXCEPT !.old = i])
                    ELSE Suspend(p, "leaderboard", [r EXCEPT !.doc = DocOf(i)])
    /\ started' = started + 1
    /\ UNCHANGED <<now, ticks, questions, players, timers, sequential>>
    /\ UNCHANGED others

\* Lines 52-53: question.isActive = false; question.save()
GetSave(p) ==
    /\ At(p, "save")
    /\ questions' = Retire(questions, req[p].old)
    /\ Suspend(p, "create", [req[p] EXCEPT !.stamp = now])
    /\ UNCHANGED <<now, ticks, started, players, timers, sequential>>
    /\ UNCHANGED others

\* Lines 41-46 and 55-60: Question.create({ text, answer, isActive: true })
GetCreate(p) ==
    /\ At(p, "create")
    /\ Len(questions) < MaxQuestions
    /\ \E g \in generateQuestion :
         questions' = Append(questions, NewQuestion(g, req[p].stamp, req[p].old))
    /\ Suspend(p, "leaderboard",
               [req[p] EXCEPT !.doc = [NoDoc EXCEPT !.id = Len(questions) + 1,
                                                    !.createdAt = req[p].stamp]])
    /\ UNCHANGED <<now, ticks, started, players, timers, sequential>>
    /\ UNCHANGED others

\* Lines 64-79: read the leaderboard and answer with the snapshot.
GetLeaderboard(p) ==
    /\ At(p, "leaderboard")
    /\ \E tie \in TieOrders : Respond(p, GetResponse(req[p], SelectScore(TopPlayers(players, tie))))
    /\ UNCHANGED <<now, ticks, started, questions, players, timers, sequential>>
    /\ UNCHANGED others

\* ------------------------------------------------------------ the clock

\* The instants the clock is observed at: for an active unclaimed question
\* the last instant of its timeout window and the first one after it (the
\* test is >), and the due time of a pending rotation task.
Deadlines ==
    { questions[i].createdAt + QUESTION_TIMEOUT_MS + d :
        i \in { j \in Active : questions[j].winnerId = None }, d \in {0, 1} }
    \cup { t.due : t \in timers }

Tick(t) ==
    /\ sent = NoResponse
    /\ t \in Deadlines /\ t > now
    /\ ticks < MaxTicks
    /\ now' = t
    /\ ticks' = ticks + 1
    /\ sent' = NoResponse
    /\ UNCHANGED <<started, questions, players, timers, pc, req, sequential, story>>
    /\ UNCHANGED others

\* The response reaches the client.
Deliver ==
    /\ sent # NoResponse
    /\ sent' = NoResponse
    /\ UNCHANGED <<now, ticks, started, questions, players, timers, pc, req, sequential, story>>
    /\ UNCHANGED others

\* ---------------------------------------------------------------- Next

Next ==
    \/ \E p \in Procs : \E b \in AnswerBodies : PostFindQuestion(p, b.playerId, b.questionId, b.answer)
    \/ \E p \in Procs : PostFindPlayer(p)
    \/ \E p \in Procs : PostClaim(p)
    \/ \E p \in Procs : PostAward(p)
    \/ \E p \in Procs : GetFind(p)
    \/ \E p \in Procs : GetSave(p)
    \/ \E p \in Procs : GetCreate(p)
    \/ \E p \in Procs : GetLeaderboard(p)
    \/ \E t \in timers : TimerRetire(t)
    \/ \E t \in timers : TimerCreate(t)
    \/ \E t \in timers : TimerLost(t)
    \/ \E t \in Deadlines : Tick(t)
    \/ Deliver

Spec == Init /\ [][Next]_vars

SpecSeq == InitSeq /\ [][Next]_vars

\* ===================================================================
\* POST /api/join
\* ===================================================================

serverRest == <<now, ticks, started, questions, timers, pc, req, sent, sequential, story>>

page == <<client, calls, timer, last, seen, conn>>

\* The handler of p sends a response and ends.
JoinRespond(p, r) ==
    /\ joined' = r
    /\ join' = [join EXCEPT ![p] = [IdleJoin EXCEPT !.at = "done"]]

\* Lines 8-17 and, in join/route.ts, 22-26: validate and cap the username
\* and look the player up; join/route.ts answers with the player it found.
JoinFind(p, route, username) ==
    /\ join[p].at = "idle"
    /\ \A q \in 1..(p - 1) : join[q].at # "idle"
    /\ LET trimmed == Trimmed(username)
           found == { i \in DOMAIN players : players[i].username = trimmed }
           r == [NoJoined EXCEPT !.route = route, !.username = trimmed]
       IN  IF Trim(username) = << >>
             THEN JoinRespond(p, [r EXCEPT !.status = 400])
           ELSE IF found = {}
             THEN /\ join' = [join EXCEPT ![p] = [IdleJoin EXCEPT !.at = "create", !.route = route,
                                                                  !.username = trimmed]]
                  /\ UNCHANGED joined
           ELSE \E i \in found :
                  IF ResetsScore(route)
                    THEN /\ join' = [join EXCEPT ![p] =
                                       [ at |-> "save", route |-> route, username |-> trimmed,
                                         id |-> i, score |-> players[i].score,
                                         highScore |-> players[i].highScore ]]
                         /\ UNCHANGED joined
                    ELSE JoinRespond(p, [r EXCEPT !.status = 200, !.playerId = i,
                                                   !.score = players[i].score,
                                                   !.highScore = players[i].highScore,
                                                   !.existed = TRUE, !.read = players[i].score])
    /\ UNCHANGED <<players, serverRest, board, page>>

\* Lines 18-20: Player.create(...); the unique index on username rejects a
\* second document of the same name, and the handler answers 500.
JoinCreate(p) ==
    /\ join[p].at = "create"
    /\ LET j == join[p]
           r == [NoJoined EXCEPT !.route = j.route, !.username = j.username]
       IN  IF \E i \in DOMAIN players : players[i].username = j.username
             THEN /\ UNCHANGED players
                  /\ JoinRespond(p, [r EXCEPT !.status = 500])
             ELSE /\ players' = Append(players, NewPlayer(j.username))
                  /\ JoinRespond(p, [r EXCEPT !.status = 200, !.playerId = Len(players) + 1])
    /\ UNCHANGED <<serverRest, board, page>>

\* part_001 lines 20-24: player.score = 0; player.save().  save() writes the
\* paths whose value was changed on the loaded document.
JoinSave(p) ==
    /\ join[p].at = "save"
    /\ LET j == join[p]
       IN  /\ players' = IF j.score # 0 THEN [players EXCEPT ![j.id].score = 0] ELSE players
           /\ JoinRespond(p, [NoJoined EXCEPT !.status = 200, !.route = j.route,
                                              !.username = j.username, !.playerId = j.id,
                                              !.score = 0, !.highScore = j.highScore,
                                              !.existed = TRUE, !.read = j.score])
    /\ UNCHANGED <<serverRest, board, page>>

RECURSIVE SumScores(_, _)
SumScores(ps, n) == IF n = 0 THEN 0 ELSE ps[n].score + SumScores(ps, n - 1)

\* answer/route.ts line 65, the award of a win:
\* Player.findByIdAndUpdate(playerId, { $inc: { score: 1 } })
ScoreInc(i) ==
    /\ i \in DOMAIN players
    /\ SumScores(players, Len(players)) < MaxWins
    /\ players' = [players EXCEPT ![i].score = @ + 1]
    /\ board = NoBoard
    /\ UNCHANGED <<serverRest, join, joined, board, page>>

\* Everything but the Player collection and the join handlers.
ServerAtRest ==
    /\ now = 0 /\ ticks = 0 /\ started = 0
    /\ questions = << >>
    /\ timers = {}
    /\ pc = [ p \in Procs |-> "idle" ]
    /\ req = [ p \in Procs |-> IdleReq ]
    /\ sent = NoResponse
    /\ sequential = FALSE
    /\ story = NoStory

\* Nobody has joined yet.
InitJoin ==
    /\ ServerAtRest
    /\ players = << >>
    /\ join = [ p \in JoinProcs |-> IdleJoin ]
    /\ joined = NoJoined
    /\ board = NoBoard
    /\ ClientStart

NextJoin ==
    \/ \E p \in JoinProcs : \E route \in JoinRoutes : \E username \in RawUsernames :
         JoinFind(p, route, username)
    \/ \E p \in JoinProcs : JoinCreate(p)
    \/ \E p \in JoinProcs : JoinSave(p)
    \/ \E i \in DOMAIN players : ScoreInc(i)

SpecJoin == InitJoin /\ [][NextJoin]_vars

\* ===================================================================
\* GET /api/leaderboard
\* ===================================================================

\* The i-th username: i letters.
NameOf(i) == [ k \in 1..i |-> "a" ]

\* Up to MaxPlayers players have joined.
InitBoard ==
    /\ ServerAtRest
    /\ \E n \in 0..MaxPlayers : players = [ i \in 1..n |-> NewPlayer(NameOf(i)) ]
    /\ join = [ p \in JoinProcs |-> IdleJoin ]
    /\ joined = NoJoined
    /\ board = NoBoard
    /\ ClientStart

\* part_002 lines 7-16: the query, and the answer { leaderboard }.
LeaderboardGet(tie) ==
    /\ board = NoBoard
    /\ board' = [ status |-> 200, leaderboard |-> TopPlayers(players, tie) ]
    /\ UNCHANGED <<serverRest, players, join, joined, page>>

\* The response reaches the client.
LeaderboardDeliver ==
    /\ board # NoBoard
    /\ board' = NoBoard
    /\ UNCHANGED <<serverRest, players, join, joined, page>>

NextBoard ==
    \/ \E tie \in TieOrders : LeaderboardGet(tie)
    \/ LeaderboardDeliver
    \/ \E i \in DOMAIN players : ScoreInc(i)

SpecBoard == InitBoard /\ [][NextBoard]_vars

\* ===================================================================
\* The page (page.tsx): fetchWithRetry, the poll loop, handleSubmit
\* ===================================================================

backend == <<now, ticks, started, questions, players, timers, pc, req, sent, sequential,
             story, join, joined, board, conn>>

\* Math.pow(2, attempt)
RECURSIVE Pow2(_)
Pow2(k) == IF k = 0 THEN 1 ELSE 2 * Pow2(k - 1)

\* baseDelay * Math.pow(2, attempt)
RetryDelayFlat(baseDelay, attempt) == baseDelay  \* the bug: no backoff
RetryDelay(baseDelay, attempt) == baseDelay * Pow2(attempt)

\* attempt < maxRetries, the test before the wait
MayRetry(attempt, maxRetries) == attempt < maxRetries

\* for (attempt = 0; attempt <= maxRetries; attempt++)
MayAttempt(attempt, maxRetries) == attempt <= maxRetries

\* The maxRetries and baseDelay arguments of the caller.
Budget(c) ==
    IF c = "submit"
      THEN [ maxRetries |-> ANSWER_RETRIES, baseDelay |-> ANSWER_BASE_DELAY ]
      ELSE [ maxRetries |-> POLL_RETRIES, baseDelay |-> POLL_BASE_DELAY ]

\* The snapshots a poll may receive: one of two questions, with or without
\* a winner; and a response that is not ok.
Snapshots == { [ questionId |-> q, winnerId |-> w ] : q \in {1, 2}, w \in {None, 2} }

PollResponses ==
    { [ ok |-> TRUE, data |-> d ] : d \in Snapshots } \cup { [ ok |-> FALSE, data |-> NoQuestion ] }

\* Bodies POST /api/answer sends, one for each branch of lines 208-217:
\* the win, correct but too late, and a rejection.
AnswerResponses ==
    { [ ok |-> TRUE,  won |-> TRUE,  correct |-> TRUE,  message |-> "wins!" ],
      [ ok |-> TRUE,  won |-> FALSE, correct |-> TRUE,  message |-> "Correct, but someone was faster!" ],
      [ ok |-> TRUE,  won |-> FALSE, correct |-> FALSE, message |-> "Wrong answer, try again!" ] }

\* What the number input may hold: nothing, or a number.
AnswerTexts == { "", "56" }

\* The catch of fetchQuestion, lines 150-160.
Counted(f) == f + 1

OfflineNever(f) == FALSE  \* the bug: the offline threshold is never met
Offline(f) == f >= OFFLINE_AT

ReconnectingNever(f) == FALSE  \* the bug: the reconnecting threshold is never met
Reconnecting(f) == f >= RECONNECTING_AT

fetchQuestionCatch(cl) ==
    LET f == Counted(cl.consecutiveFailures)
    IN  IF Offline(f)
          THEN [cl EXCEPT !.consecutiveFailures = f, !.connectionStatus = "offline",
                          !.pollIntervalRef = POLL_OFFLINE_MS]
        ELSE IF Reconnecting(f)
          THEN [cl EXCEPT !.consecutiveFailures = f, !.connectionStatus = "reconnecting",
                          !.pollIntervalRef = POLL_SLOW_MS]
        ELSE [cl EXCEPT !.consecutiveFailures = f]

\* Lines 135-140: if (consecutiveFailures.current > 0) { reset }
Recovered(cl) == cl.consecutiveFailures > 0

Reset(cl) ==
    IF Recovered(cl)
      THEN [cl EXCEPT !.consecutiveFailures = 0, !.pollIntervalRef = POLL_FAST_MS,
                      !.connectionStatus = "connected"]
      ELSE cl

\* Lines 142-149: a new question clears the input, and the feedback when
\* the snapshot has no winner.
KeepsInput(cl, data) == cl  \* the bug: the change of question is ignored
NewQuestionSeen(cl, data) ==
    IF data.questionId # cl.lastQuestionId
      THEN [cl EXCEPT !.lastQuestionId = data.questionId,
                      !.answerInput = "",
                      !.feedback = IF data.winnerId = None THEN NoFeedback ELSE @]
      ELSE cl

\* Lines 130-149: fetchQuestion after fetchWithRetry returned res.
fetchQuestionThen(cl, res) ==
    IF ~res.ok THEN cl
    ELSE NewQuestionSeen(Reset([cl EXCEPT !.question = res.data]), res.data)

\* Lines 205-221 and 227-229: handleSubmit after fetchWithRetry returned.
FeedbackOf(data) ==
    IF data.won THEN [ message |-> data.message, type |-> "success" ]
    ELSE IF data.correct THEN [ message |-> data.message, type |-> "info" ]
    ELSE [ message |-> IF data.message = "" THEN "Wrong answer!" ELSE data.message,
           type |-> "error" ]

handleSubmitThen(cl, data) ==
    [cl EXCEPT !.feedback = FeedbackOf(data),
               !.answerInput = IF ~data.correct THEN "" ELSE @,
               !.submitting = FALSE]

\* Lines 222-229: the catch and the finally of handleSubmit.
handleSubmitCatchClears(cl) ==  \* the bug: the input is cleared as after a rejection
    [cl EXCEPT !.feedback = NetworkError, !.answerInput = "", !.submitting = FALSE]
handleSubmitCatch(cl) ==
    [cl EXCEPT !.feedback = NetworkError, !.submitting = FALSE]

\* The call of caller c ends; a poll of the timeout callback re-arms the
\* timeout with the interval of that moment (schedulePoll, lines 168-173).
Ends(c, outcome, res, cl) ==
    /\ calls' = [calls EXCEPT ![c] = NoCall]
    /\ client' = cl
    /\ timer' = IF c = "loop" THEN cl.pollIntervalRef ELSE timer
    /\ last' = [ caller |-> c, outcome |-> outcome,
                 attempts |-> calls[c].attempt + 1, waited |-> calls[c].waited,
                 ok |-> res.ok, data |-> res.data,
                 changed |-> res.ok /\ res.data.questionId # client.lastQuestionId,
                 streak |-> seen.streak ]

NoData == [ ok |-> FALSE, data |-> NoQuestion ]

\* Lines 15-30 of fetchWithRetry: the fetch of the current attempt rejects
\* (the network fails, or the abort of line 18 fires); the wrapper waits
\* and tries again, or throws to its caller, whose catch runs.
Rejects(c) ==
    /\ calls[c].at = "fetch"
    /\ MayAttempt(calls[c].attempt, Budget(c).maxRetries)
    /\ IF MayRetry(calls[c].attempt, Budget(c).maxRetries)
         THEN /\ calls' = [calls EXCEPT ![c].at = "wait",
                                        ![c].waited = Append(@, RetryDelay(Budget(c).baseDelay,
                                                                           calls[c].attempt))]
              /\ last' = NoLast
              /\ UNCHANGED <<client, timer, seen>>
         ELSE IF c = "submit"
           THEN /\ Ends(c, "threw", NoData, handleSubmitCatch(client))
                /\ UNCHANGED seen
           ELSE /\ client.consecutiveFailures < MaxStreak
                /\ Ends(c, "threw", NoData, fetchQuestionCatch(client))
                /\ seen' = [seen EXCEPT !.streak = IF seen.events THEN 0 ELSE @ + 1]

FetchRejects(c) ==
    /\ Rejects(c)
    /\ UNCHANGED backend

\* Line 26: the timeout of the wait fires; the loop goes to the next attempt.
WaitEnds(c) ==
    /\ calls[c].at = "wait"
    /\ calls' = [calls EXCEPT ![c].at = "fetch", ![c].attempt = @ + 1]
    /\ last' = NoLast
    /\ UNCHANGED <<client, timer, seen, backend>>

\* Lines 19-21 of fetchWithRetry and lines 130-149 of fetchQuestion: the
\* fetch of a poll resolves with res and the wrapper returns it at once.
PollResolves(c, res) ==
    /\ c \in Pollers
    /\ calls[c].at = "fetch"
    /\ Ends(c, "returned", res, fetchQuestionThen(client, res))
    /\ seen' = IF res.ok THEN [seen EXCEPT !.streak = 0] ELSE seen
    /\ UNCHANGED backend

\* Lines 19-21 of fetchWithRetry and lines 205-229 of handleSubmit.
SubmitResolves(data) ==
    /\ calls["submit"].at = "fetch"
    /\ Ends("submit", "returned", NoData, handleSubmitThen(client, data))
    /\ UNCHANGED <<seen, backend>>

\* Lines 169-172: the poll timeout fires and calls fetchQuestion.
TimerFires ==
    /\ timer # 0
    /\ calls["loop"].at = "none"
    /\ timer' = 0
    /\ calls' = [calls EXCEPT !["loop"] = NewCall]
    /\ last' = NoLast
    /\ UNCHANGED <<client, seen, backend>>

\* The answer form is rendered: the quiz screen is shown (line 246), with a
\* question that has no winner.
FormShown ==
    /\ client.playerId # None
    /\ client.question # NoQuestion /\ client.question.winnerId = None

\* Line 367: onChange of the answer input.
Type(v) ==
    /\ FormShown
    /\ v # client.answerInput
    /\ client' = [client EXCEPT !.answerInput = v]
    /\ last' = NoLast
    /\ UNCHANGED <<calls, timer, seen, backend>>

\* Lines 188-204: handleSubmit up to the call of fetchWithRetry.
handleSubmit ==
    /\ FormShown
    /\ ~(\/ client.playerId = None \/ client.question = NoQuestion
         \/ client.submitting \/ client.answerInput = "")
    /\ client' = [client EXCEPT !.submitting = TRUE, !.feedback = NoFeedback]
    /\ calls' = [calls EXCEPT !["submit"] = NewCall]
    /\ last' = NoLast
    /\ UNCHANGED <<timer, seen, backend>>

\* Line 75: the browser's offline event.
goOffline ==
    /\ client' = [client EXCEPT !.connectionStatus = "offline"]
    /\ seen' = [ streak |-> 0, events |-> TRUE ]
    /\ last' = NoLast
    /\ UNCHANGED <<calls, timer, backend>>

\* Lines 76-80: the browser's online event.
goOnline ==
    /\ client' = [client EXCEPT !.connectionStatus = "connected",
                                !.consecutiveFailures = 0,
                                !.pollIntervalRef = POLL_FAST_MS]
    /\ seen' = [ streak |-> 0, events |-> TRUE ]
    /\ last' = NoLast
    /\ UNCHANGED <<calls, timer, backend>>

\* Lines 233-240, and line 175, the cleanup of the poll effect that the
\* render after setPlayerId(null) runs: the session is cleared and the
\* timeout last armed, if still pending, is cancelled. Calls in flight go on.
handleLogout ==
    /\ client.playerId # None
    /\ client' = [client EXCEPT !.playerId = None, !.question = NoQuestion,
                                !.feedback = NoFeedback, !.answerInput = ""]
    /\ timer' = 0
    /\ last' = NoLast
    /\ UNCHANGED <<calls, seen, backend>>

InitClient ==
    /\ ServerAtRest
    /\ players = << >>
    /\ join = [ p \in JoinProcs |-> IdleJoin ]
    /\ joined = NoJoined
    /\ board = NoBoard
    /\ ClientStart

NextClient ==
    \/ \E c \in Callers : FetchRejects(c)
    \/ \E c \in Callers : WaitEnds(c)
    \/ \E c \in Pollers : \E res \in PollResponses : PollResolves(c, res)
    \/ \E data \in AnswerResponses : SubmitResolves(data)
    \/ TimerFires
    \/ \E v \in AnswerTexts : Type(v)
    \/ handleSubmit
    \/ goOffline
    \/ goOnline
    \/ handleLogout

SpecClient == InitClient /\ [][NextClient]_vars

\* The fetch of an attempt of caller c settles: it resolves, or it rejects,
\* at the latest when its abort fires.
Settles(c) ==
    \/ FetchRejects(c)
    \/ \E res \in PollResponses : PollResolves(c, res)
    \/ c = "submit" /\ \E data \in AnswerResponses : SubmitResolves(data)

\* Every fetch settles and every wait ends.
SpecClientFair ==
    /\ SpecClient
    /\ \A c \in Callers : WF_vars(Settles(c)) /\ WF_vars(WaitEnds(c))

\* ------------------------------------ handleSubmit against /api/answer

\* The body of lines 199-204, built once for all attempts of the call. The
\* submit button takes only a non-empty input, "56" of AnswerTexts, and
\* Number("56") is 56.
SubmitBody ==
    [ playerId |-> client.playerId, questionId |-> client.question.questionId,
      answer |-> Num(56) ]

\* Line 206: res.json() of response r of the answer route.
JsonOf(r) ==
    [ ok |-> r.status = 200, won |-> r.won, correct |-> r.correct, message |-> r.message ]

\* Correct submissions of the other player.
RivalBodies ==
    { [ playerId |-> 2, questionId |-> q, answer |-> Num(56) ] : q \in 1..Len(questions) }

\* The page shows question 1, which the first poll has brought; the poll
\* timeout is armed; nothing has been submitted.
InitSubmit ==
    /\ now = 0 /\ ticks = 0 /\ started = 0
    /\ questions \in { << NewQuestion(g, 0, None) >> : g \in generateQuestion }
    /\ players = [ i \in PlayerIds |->
                     [ username |-> IF i = 1 THEN "alice" ELSE "bob",
                       score |-> 0, highScore |-> 0 ] ]
    /\ timers = {}
    /\ pc = [ p \in Procs |-> "idle" ]
    /\ req = [ p \in Procs |-> IdleReq ]
    /\ sent = NoResponse
    /\ sequential = FALSE
    /\ story = NoStory
    /\ join = [ p \in JoinProcs |-> IdleJoin ]
    /\ joined = NoJoined
    /\ board = NoBoard
    /\ client = [NewClient EXCEPT !.question = [ questionId |-> 1, winnerId |-> None ],
                                  !.lastQuestionId = 1]
    /\ calls = [ c \in Callers |-> NoCall ]
    /\ timer = POLL_FAST_MS
    /\ last = NoLast
    /\ seen = [ streak |-> 0, events |-> FALSE ]
    /\ conn = 0

\* Line 19 of fetchWithRetry: the request of the pending fetch reaches the
\* server, whose handler p runs lines 9-44 of answer/route.ts.
SubmitReaches(p) ==
    /\ calls["submit"].at = "fetch"
    /\ conn = 0
    /\ PostArrives(p, SubmitBody.playerId, SubmitBody.questionId, SubmitBody.answer)
    /\ conn' = p
    /\ UNCHANGED <<join, joined, board, client, calls, timer, last, seen>>

\* Lines 19-21 of fetchWithRetry and lines 205-229 of handleSubmit: the
\* response of the handler the pending fetch has reached arrives.
SubmitArrives ==
    /\ calls["submit"].at = "fetch"
    /\ sent # NoResponse
    /\ conn # 0 /\ pc[conn] = "idle"
    /\ Ends("submit", "returned", NoData, handleSubmitThen(client, JsonOf(sent)))
    /\ sent' = NoResponse
    /\ conn' = 0
    /\ UNCHANGED <<now, ticks, started, questions, players, timers, pc, req, sequential,
                   story, join, joined, board, seen>>

\* Lines 15-30 of fetchWithRetry: the pending fetch rejects (the network
\* fails, or the abort of line 18 fires), whether or not its request has
\* reached the server; the handler it reached, if any, goes on.
SubmitAborts ==
    /\ Rejects("submit")
    /\ conn' = 0
    /\ UNCHANGED <<now, ticks, started, questions, players, timers, pc, req, sent,
                   sequential, story, join, joined, board>>

\* A response that no pending fetch of the page is waiting for: of the
\* other player, or of a fetch that has been aborted.
Discarded ==
    /\ sent # NoResponse
    /\ IF conn = 0 THEN TRUE ELSE pc[conn] # "idle"
    /\ sent' = NoResponse
    /\ UNCHANGED <<now, ticks, started, questions, players, timers, pc, req, sequential, story>>
    /\ UNCHANGED others

NextSubmit ==
    \/ \E v \in AnswerTexts : Type(v)
    \/ handleSubmit
    \/ \E p \in Procs : SubmitReaches(p)
    \/ SubmitArrives
    \/ SubmitAborts
    \/ WaitEnds("submit")
    \/ Discarded
    \/ \E p \in Procs : \E b \in RivalBodies : PostFindQuestion(p, b.playerId, b.questionId, b.answer)
    \/ \E p \in Procs : PostFindPlayer(p)
    \/ \E p \in Procs : PostClaim(p)
    \/ \E p \in Procs : PostAward(p)
    \/ \E t \in timers : TimerRetire(t)
    \/ \E t \in timers : TimerCreate(t)
    \/ \E t \in timers : TimerLost(t)
    \/ \E t \in Deadlines : Tick(t)

SpecSubmit == InitSubmit /\ [][NextSubmit]_vars

\* ===================================================================
\* Properties
\* ===================================================================

QIds == 1..Len(questions)

TotalScore == players[1].score + players[2].score

RECURSIVE SumWins(_)
SumWins(n) == IF n = 0 THEN 0 ELSE questions[n].wins + SumWins(n - 1)

TooLate(r) == r.kind = "POST" /\ r.status = 200 /\ r.correct /\ ~r.won
Win(r) == r.kind = "POST" /\ r.status = 200 /\ r.correct /\ r.won

\* C1: of any number of concurrent correct submissions against one question
\* exactly one is answered with the win: a question with a winner has exactly
\* one call that was or is about to be answered "win" and a question without
\* one has none; a call is answered "correct but too late" only when the
\* question has a winner or has been retired; and the scores add up to the
\* number of wins answered, one per won question.
C1_ExactlyOneWinner ==
    /\ \A i \in QIds :
         questions[i].wins
           + Cardinality({ p \in Procs : pc[p] = "award" /\ req[p].questionId = i })
         = (IF questions[i].winnerId # None THEN 1 ELSE 0)
    /\ TooLate(sent) =>
         \/ questions[sent.questionId].winnerId # None
         \/ ~questions[sent.questionId].isActive
    /\ TotalScore = SumWins(Len(questions))

\* Two correct submissions raced for one active question: one was answered
\* with the win and scored, the other is now answered "too late".
C1_Witness ==
    /\ TooLate(sent)
    /\ questions[sent.questionId].isActive
    /\ questions[sent.questionId].wins = 1
    /\ questions[sent.questionId].winnerId # sent.playerId
    /\ TotalScore = 1

\* C2: at most one question is active in every reachable state.
C2_AtMostOneActive == Cardinality(Active) <= 1

\* C3: a question that is inactive stays inactive in every step.
C3_NeverReactivated ==
    [][\A i \in QIds : ~questions[i].isActive => ~questions'[i].isActive]_vars

\* A submission has just been run against a retired, won question, after
\* its rotation task retired it.
C3_Witness ==
    /\ sent.kind = "POST" /\ sent.message = "Question is no longer active"
    /\ questions[sent.questionId].winnerId # None
    /\ ~questions[sent.questionId].isActive
    /\ questions[sent.questionId].retiredAt >= questions[sent.questionId].wonAt + GRACE_DELAY_MS

Successors(i) == { j \in QIds : questions[j].parent = i }

\* C4: a retirement is followed by the creation of exactly one successor, not
\* two or more, and the successor's createdAt is at or after the retirement.
C4_OneSuccessor ==
    \A i \in QIds :
      /\ Cardinality(Successors(i)) <= 1
      /\ \A j \in Successors(i) : questions[j].createdAt >= questions[i].retiredAt

\* A snapshot call has just found question i (no rotation): arrival at the
\* leaderboard read straight from the find.
Returned(p, i) ==
    /\ pc[p] = "idle" /\ pc'[p] = "leaderboard"
    /\ req'[p].doc.id = i

\* C5: a snapshot call that inspects an active question with no winner and of
\* age above the timeout window does not return it; and a call that retired
\* a question has retired it, has created its successor as an active
\* unclaimed question, and returns that successor with no winner.
C5_TimeoutRotation ==
    /\ [][\A p \in Procs : \A i \in QIds :
            Returned(p, i) =>
              ~(questions[i].winnerId = None
                /\ now - questions[i].createdAt > QUESTION_TIMEOUT_MS)]_vars
    /\ [](sent.kind = "GET" /\ sent.old # None =>
            /\ ~questions[sent.old].isActive
            /\ sent.questionId \in QIds \ {sent.old}
            /\ questions[sent.questionId].parent = sent.old
            /\ questions[sent.questionId].createdAt >= questions[sent.old].retiredAt
            /\ sent.winnerId = None)

\* A question created at t0 was inspected at t0 + 60001 ms by the call that
\* now returns its successor, active and unclaimed.
C5_Witness ==
    /\ sent.kind = "GET" /\ sent.old # None
    /\ now = questions[sent.old].createdAt + QUESTION_TIMEOUT_MS + 1
    /\ questions[sent.old].retiredAt = now
    /\ questions[sent.questionId].isActive
    /\ questions[sent.questionId].winnerId = None

\* C6: a won question is active at every instant before wonAt + 3000 ms.
C6_GraceWindow ==
    \A i \in QIds :
      (questions[i].winnerId # None /\ now < questions[i].wonAt + GRACE_DELAY_MS)
        => questions[i].isActive

\* C7: a snapshot call that inspects an active question with a winner, after
\* its grace delay and with no rotation task left for it, does not return it
\* (it retires it and creates the successor).
C7_SafetyNet ==
    [][\A p \in Procs : \A i \in QIds :
         Returned(p, i) =>
           ~(/\ questions[i].winnerId # None
             /\ now >= questions[i].wonAt + GRACE_DELAY_MS
             /\ \A t \in timers : t.questionId # i)]_vars

Store == <<questions, players, timers>>

\* C8: no step of a submission whose value is not the stored answer changes
\* a Question, a Player or the pending rotation tasks.
C8_WrongAnswerNoEffect ==
    [][/\ \A p \in Procs :
            (/\ pc[p] # "idle" /\ pc'[p] # pc[p] /\ req[p].kind = "POST"
             /\ req[p].value # questions[req[p].questionId].answer)
              => UNCHANGED Store
       /\ (/\ sent'.kind = "POST" /\ sent'.questionId \in QIds
           /\ sent'.value # questions[sent'.questionId].answer)
              => UNCHANGED Store]_vars

\* The second of two wrong submissions has just been answered, and nothing
\* has a winner, a score or a rotation task.
C8_Witness ==
    /\ sent.message = "Wrong answer, try again!"
    /\ started = 2
    /\ \A p \in Procs : pc[p] = "idle"
    /\ \A i \in QIds : questions[i].winnerId = None /\ questions[i].isActive
    /\ TotalScore = 0 /\ timers = {}

\* The outcome of a response to a submission.
Outcome(r) ==
    IF r.status = 404 /\ r.message = "Question not found" THEN "question not found"
    ELSE IF r.status = 404 /\ r.message = "Player not found" THEN "player not found"
    ELSE IF r.status = 400 THEN "bad request"
    ELSE IF r.status = 500 THEN "server error"
    ELSE IF r.message = "Question is no longer active" THEN "inactive"
    ELSE IF r.message = "Someone already answered correctly" THEN "already won"
    ELSE IF r.message = "Wrong answer, try again!" THEN "wrong answer"
    ELSE IF TooLate(r) THEN "too late"
    ELSE IF Win(r) THEN "win"
    ELSE "other"

SixOutcomes ==
    { "question not found", "inactive", "already won", "wrong answer", "too late", "win" }

\* A submission with a playerId and a questionId, both ObjectIds, and a
\* numeric value.
WellFormed(r) ==
    /\ r.kind = "POST" /\ r.value # NaN
    /\ r.playerId \notin {None, MalformedId}
    /\ r.questionId \notin {None, MalformedId}

\* C9, as claimed: every such submission ends in one of the six outcomes.
C9_SixOutcomes == WellFormed(sent) => Outcome(sent) \in SixOutcomes

\* C9, amended: it ends in one of the six outcomes or in "player not found"
\* (the value is the answer and playerId names no player), and each outcome
\* is sent only in its own case; a server error is sent only for an id that
\* is no ObjectId.
C9_SevenOutcomes ==
    /\ Outcome(sent) = "server error" => MalformedId \in {sent.playerId, sent.questionId}
    /\ WellFormed(sent) =>
         LET o == Outcome(sent)
             known == sent.questionId \in QIds
             q == questions[sent.questionId]
         IN  /\ o \in SixOutcomes \cup {"player not found"}
             /\ o = "question not found" => ~known
             /\ o = "inactive" => known /\ ~q.isActive
             /\ o = "already won" => known /\ q.isActive /\ q.winnerId # None
             /\ o = "wrong answer" =>
                  known /\ q.isActive /\ q.winnerId = None /\ sent.value # q.answer
             /\ o = "player not found" =>
                  known /\ sent.value = q.answer /\ sent.playerId \notin DOMAIN players
             /\ o = "too late" =>
                  known /\ sent.value = q.answer /\ sent.playerId \in DOMAIN players
             /\ o = "win" =>
                  known /\ sent.value = q.answer /\ q.winnerId = sent.playerId

\* A correct submission by an id of no player has just been answered 404.
C9_Witness ==
    /\ WellFormed(sent) /\ Outcome(sent) = "player not found"
    /\ sent.value = questions[sent.questionId].answer
    /\ questions[sent.questionId].winnerId = None

PollSucceeded == last.caller \in Pollers /\ last.outcome = "returned" /\ last.ok

\* C12: with no browser event, after 5 or more failed polls in a row the page
\* is offline with poll interval 10000 ms, and the successful poll that ends
\* such a row leaves it connected with interval 1500 ms and failure counter 0.
C12_OfflineAfterFive ==
    /\ ~seen.events /\ seen.streak >= 5 =>
          client.connectionStatus = "offline" /\ client.pollIntervalRef = 10000
    /\ PollSucceeded /\ last.streak >= 5 =>
          /\ client.connectionStatus = "connected"
          /\ client.pollIntervalRef = 1500
          /\ client.consecutiveFailures = 0

\* Five polls failed in a row from the start, and the sixth has just
\* succeeded.
C12_Witness ==
    /\ PollSucceeded /\ last.streak = 5
    /\ ~seen.events /\ seen.streak = 0
    /\ client.connectionStatus = "connected"

\* C13: in every step, a question with a winner keeps its winnerId and
\* winnerName, and a question that is not active keeps its winnerId,
\* winnerName and isActive.
C13_WinnerWrittenOnce ==
    [][\A i \in QIds :
         /\ questions[i].winnerId # None =>
               /\ questions'[i].winnerId = questions[i].winnerId
               /\ questions'[i].winnerName = questions[i].winnerName
         /\ ~questions[i].isActive =>
               /\ questions'[i].winnerId = questions[i].winnerId
               /\ questions'[i].winnerName = questions[i].winnerName
               /\ ~questions'[i].isActive]_vars

\* A correct submission read its question while it was active and
\* unclaimed; a snapshot call then retired the question on timeout, and the
\* claim that followed wrote nothing: the question still has no winner.
C13_Witness ==
    /\ TooLate(sent)
    /\ ~questions[sent.questionId].isActive
    /\ questions[sent.questionId].winnerId = None
    /\ questions[sent.questionId].winnerName = ""

\* The players of a leaderboard response.
Listed(lb) == { lb[k].id : k \in 1..Len(lb) }

\* C14: a leaderboard, of the leaderboard route or of a snapshot, lists at
\* most 10 players, and 10 when there are that many, each once and with its
\* stored score, in non-increasing order of score, and no player left out
\* has a higher score than a listed one; and the step that reads it changes
\* no Player and no Question.
IsTopTen(lb) ==
    /\ Len(lb) <= LEADERBOARD_LIMIT
    /\ Len(lb) = Min(LEADERBOARD_LIMIT, Len(players))
    /\ Cardinality(Listed(lb)) = Len(lb)
    /\ \A k \in 1..Len(lb) :
          /\ lb[k].id \in DOMAIN players
          /\ lb[k].score = players[lb[k].id].score
    /\ \A k \in 1..(Len(lb) - 1) : lb[k].score >= lb[k + 1].score
    /\ \A i \in DOMAIN players \ Listed(lb) :
          \A k \in 1..Len(lb) : players[i].score <= lb[k].score

C14_TopTen ==
    /\ [](board.status = 200 => IsTopTen(board.leaderboard))
    /\ [](sent.kind = "GET" => IsTopTen(sent.leaderboard))
    /\ [][board = NoBoard /\ board' # NoBoard => UNCHANGED <<players, questions>>]_vars
    /\ [][\A p \in Procs : pc[p] = "leaderboard" /\ pc'[p] = "idle" => UNCHANGED <<players, questions>>]_vars

\* More than 10 players: the one stored last has the highest score and is
\* listed first, and a player of the lowest score is left out.
C14_Witness ==
    /\ board.status = 200
    /\ Len(players) > LEADERBOARD_LIMIT
    /\ Len(board.leaderboard) = LEADERBOARD_LIMIT
    /\ board.leaderboard[1].id = Len(players)
    /\ board.leaderboard[1].score > board.leaderboard[LEADERBOARD_LIMIT].score

\* C15, as claimed: a snapshot call that inspects an active question with no
\* winner at an age of the timeout window or more does not return it.
C15_RetiresAtWindow ==
    [][\A p \in Procs : \A i \in QIds :
         Returned(p, i) =>
           ~(questions[i].winnerId = None
             /\ now - questions[i].createdAt >= QUESTION_TIMEOUT_MS)]_vars

\* C15, amended: the test is "greater than".  A snapshot call takes the
\* retiring branch for a question only when that question has no winner and
\* its age is above the timeout window, and a snapshot that returns the
\* unclaimed question it inspected has inspected it at an age of at most the
\* window: at exactly createdAt + 60000 ms the question is returned.
C15_RetiresAfterWindow ==
    /\ [][\A p \in Procs :
            pc[p] = "idle" /\ pc'[p] = "save" =>
              LET q == questions[req'[p].old]
              IN  q.winnerId = None /\ now - q.createdAt > QUESTION_TIMEOUT_MS]_vars
    /\ [](sent.kind = "GET" /\ sent.old = None /\ sent.winnerId = None =>
            sent.readAt - questions[sent.questionId].createdAt <= QUESTION_TIMEOUT_MS)
    /\ [](sent.kind = "GET" /\ sent.old # None =>
            /\ questions[sent.old].retiredAt > questions[sent.old].createdAt + QUESTION_TIMEOUT_MS
            /\ Successors(sent.old) # {})

\* A question created at t0 was inspected at exactly t0 + 60000 ms, and the
\* call returns it: still active, no winner, nothing left of its window.
C15_Witness ==
    /\ sent.kind = "GET" /\ sent.old = None /\ sent.winnerId = None
    /\ sent.readAt = questions[sent.questionId].createdAt + QUESTION_TIMEOUT_MS
    /\ sent.remainingMs = 0
    /\ questions[sent.questionId].isActive
    /\ Successors(sent.questionId) = {}

\* The status and the interval the claims give for a failure counter f.
StatusOf(f) == IF f < 2 THEN "connected" ELSE IF f < 5 THEN "reconnecting" ELSE "offline"
IntervalOf(f) == IF f < 2 THEN 1500 ELSE IF f < 5 THEN 4000 ELSE 10000

C17_SuccessResets ==
    PollSucceeded =>
      /\ client.consecutiveFailures = 0
      /\ client.pollIntervalRef = 1500
      /\ client.connectionStatus = "connected"

\* The retries and the waits the claim gives.
ClaimedRetries(c) == IF c = "submit" THEN 2 ELSE 1
ClaimedWaits == << 300, 600 >>

\* C18: a call in flight is at attempt 0 or at one of its retries (1 for a
\* poll, 2 for a submission) and has waited 300 ms after failed attempt 0 and
\* 600 ms after failed attempt 1, once after each failed attempt; a call
\* that returned did so at the attempt that succeeded, with one wait for
\* each attempt before it; a call that threw has made every attempt and
\* waited only between attempts; and an attempt is followed by the end of
\* the call or by a wait, a wait by the next attempt.
C18_RetryBounded ==
    /\ [](\A c \in Callers :
            LET k == calls[c] IN
            /\ k.attempt <= ClaimedRetries(c)
            /\ Len(k.waited) = k.attempt + (IF k.at = "wait" THEN 1 ELSE 0)
            /\ k.at = "wait" => k.attempt < ClaimedRetries(c)
            /\ k.waited = SubSeq(ClaimedWaits, 1, Len(k.waited)))
    /\ [](last.outcome = "returned" =>
            /\ last.attempts <= ClaimedRetries(last.caller) + 1
            /\ last.waited = SubSeq(ClaimedWaits, 1, last.attempts - 1))
    /\ [](last.outcome = "threw" =>
            /\ last.attempts = ClaimedRetries(last.caller) + 1
            /\ last.waited = SubSeq(ClaimedWaits, 1, ClaimedRetries(last.caller)))
    /\ [][\A c \in Callers :
            /\ calls[c].at = "fetch" /\ calls'[c] # calls[c] =>
                  \/ calls'[c].at = "wait" /\ calls'[c].attempt = calls[c].attempt
                  \/ calls'[c].at = "none" /\ last'.caller = c
            /\ calls[c].at = "wait" /\ calls'[c] # calls[c] =>
                  calls'[c].at = "fetch" /\ calls'[c].attempt = calls[c].attempt + 1]_vars

\* Under SpecClientFair every call of fetchWithRetry in flight ends.
CallsEnd == \A c \in Callers : calls[c].at # "none" ~> calls[c].at = "none"

\* A submission has failed at each of its three attempts, with waits of 300
\* and 600 ms between them.
C18_Witness ==
    /\ last.caller = "submit" /\ last.outcome = "threw"
    /\ last.attempts = 3
    /\ last.waited = << 300, 600 >>

\* C19: the step in which a submission fails at its last attempt shows the
\* network-error message, leaves the answer input as it is and ends the
\* submitting state; the step in which a poll fails at its last attempt
\* adds exactly 1 to the failure counter.
C19_FailureSurfaces ==
    [][/\ last'.caller = "submit" /\ last'.outcome = "threw" =>
            /\ client.submitting /\ ~client'.submitting
            /\ client'.feedback = [ message |-> "Network error. Please try again.",
                                    type |-> "error" ]
            /\ client'.answerInput = client.answerInput
       /\ last'.caller \in Pollers /\ last'.outcome = "threw" =>
            client'.consecutiveFailures = client.consecutiveFailures + 1]_vars

\* A submission of "56" has just failed at its third attempt, after a poll
\* had failed too: the input still holds "56" and may be submitted again.
C19_Witness ==
    /\ last.caller = "submit" /\ last.outcome = "threw" /\ last.attempts = 3
    /\ client.answerInput = "56"
    /\ client.feedback = NetworkError
    /\ ~client.submitting
    /\ client.consecutiveFailures = 1
    /\ FormShown

\* C20: the step of a successful poll whose questionId is not the last
\* observed one empties the answer input, and empties the feedback when the
\* snapshot has no winner and leaves it when it has one; the step of a
\* successful poll whose questionId is the last observed one changes
\* neither.
C20_NewQuestionClears ==
    [][last'.caller \in Pollers /\ last'.outcome = "returned" /\ last'.ok =>
         IF last'.data.questionId # client.lastQuestionId
           THEN /\ client'.answerInput = ""
                /\ client'.feedback =
                     IF last'.data.winnerId = None THEN NoFeedback ELSE client.feedback
           ELSE /\ client'.answerInput = client.answerInput
                /\ client'.feedback = client.feedback]_vars

\* A poll has just brought a new question that already has a winner: the
\* input is empty and the feedback of the submission before it still shows.
C20_Witness ==
    /\ PollSucceeded /\ last.changed
    /\ last.data.winnerId # None
    /\ client.lastQuestionId = last.data.questionId
    /\ client.answerInput = ""
    /\ client.feedback.type = "info"

\* C21: at most one poll request of the page is in flight at any time.
C21_OnePollInFlight ==
    Cardinality({ c \in Pollers : calls[c].at = "fetch" }) <= 1

\* C22: while the page is logged out no poll timeout is armed.
C22_NoPollAfterLogout ==
    client.playerId = None => timer = 0

\* C23: a submission that passed the checks of the question (the value is
\* the answer of an active unclaimed question) with a playerId of no player
\* is answered 404 "Player not found"; no step of a submission with such a
\* playerId changes a Question, a Player or the pending rotation tasks; and
\* every winnerId in the store is the id of a player.
C23_UnknownPlayer ==
    /\ [][\A p \in Procs :
            (/\ pc[p] = "findPlayer" /\ pc'[p] # pc[p]
             /\ req[p].playerId \notin DOMAIN players \cup {MalformedId})
              => /\ sent'.status = 404 /\ sent'.message = "Player not found"
                 /\ ~sent'.correct /\ ~sent'.won
                 /\ sent'.playerId = req[p].playerId
                 /\ UNCHANGED Store]_vars
    /\ [][sent'.kind = "POST" /\ sent'.playerId \notin DOMAIN players => UNCHANGED Store]_vars
    /\ [](\A i \in QIds : questions[i].winnerId # None => questions[i].winnerId \in DOMAIN players)

\* The stored answer was submitted with an id of no player and has just
\* been answered "Player not found"; the question is still active and
\* unclaimed, no score has changed and no rotation is pending.
C23_Witness ==
    /\ sent.kind = "POST" /\ sent.status = 404 /\ sent.message = "Player not found"
    /\ sent.playerId = UnknownId
    /\ sent.value = questions[sent.questionId].answer
    /\ ClaimFilter(questions[sent.questionId])
    /\ TotalScore = 0 /\ timers = {}

\* C24: when a call of handleSubmit ends with a response of the server
\* and the page's player is the recorded winner of the question it
\* submitted for, the feedback it then shows is the win.
C24_WinnerSeesWin ==
    [][(/\ calls["submit"].at = "fetch" /\ calls'["submit"].at = "none"
        /\ last'.outcome = "returned"
        /\ questions'[client.question.questionId].winnerId = client.playerId)
       => client'.feedback.type = "success"]_vars

\* C25: no question has a winner recorded (wonAt, the time of the claiming
\* write) at an age above the timeout window.
C25_NoLateWinner ==
    \A i \in QIds :
      questions[i].winnerId # None =>
        questions[i].wonAt - questions[i].createdAt <= QUESTION_TIMEOUT_MS

\* Join handler p answers 200 in this step.
JoinAnswers(p) == join[p].at # "done" /\ join'[p].at = "done" /\ joined'.status = 200

\* C11: a join that answers for a username that existed reports score 0,
\* leaves the stored highScore as it was and, when no win was awarded since
\* the handler read the player, leaves the stored score at 0; a join that
\* answers for a new username has created a player with score 0 and
\* highScore 0 and reports score 0.
C11_JoinResetsScore ==
    [][\A p \in JoinProcs :
         JoinAnswers(p) =>
           LET id == joined'.playerId
           IN  IF joined'.existed
                 THEN /\ joined'.score = 0
                      /\ players'[id].highScore = players[id].highScore
                      /\ players[id].score = joined'.read => players'[id].score = 0
                 ELSE /\ id \notin DOMAIN players
                      /\ players'[id] = NewPlayer(joined'.username)
                      /\ joined'.score = 0 /\ joined'.highScore = 0]_vars

====
